---------------------------- MODULE Spec2Model ----------------------------
(***************************************************************************)
(* Workflows of the printer front-end.                                     *)
(* Print: the guarded reducer printReducer and the usePrintFlow hook that  *)
(* drives it from the IPP job poll, the submit mutation and the cancel     *)
(* request (src/app/print/_lib/use-print-flow.ts, src/app/_lib/queries/    *)
(* job-queries.ts, the job-status route in src/unnamed/part_001).          *)
(* Scan and copy: performScan with its create, poll, retrieve and cleanup  *)
(* steps (src/lib/api/jobs.ts), the Print-Job route                        *)
(* (src/app/api/print/route.ts) and the useCopy hook that runs a scan and  *)
(* then a print submission (src/app/copy/_lib/use-copy.ts).                *)
(* Telemetry: the fetchers of the printer API (src/unnamed/part_015,       *)
(* src/app/_lib/job-api.ts) and the PrinterStatusProvider that derives the *)
(* displayed status, the drawer flag and the status polling interval       *)
(* (src/components/_lib/printer-status-context.tsx,                        *)
(* src/app/_lib/queries/printer-queries.ts).                               *)
(***************************************************************************)
EXTENDS Integers, Sequences, FiniteSets, TLC

\* ------------------------------------------------------------------ bounds
MaxPages == 2
MaxJobs == 2
MaxPending == 2
MaxCancels == 1
MaxRuns == 2
MaxCopies == 2
MaxWaitTicks == 2
MaxConsumables == 3
MaxAlerts == 2
MaxListedJobs == 2

Files == {"a.pdf", "b.pdf"}
JobIds == 1..MaxJobs
PageCounts == 1..MaxPages
Messages == {"jam", "offline"}

\* Math.round((currentPage / totalPages) * 100) for positive operands
RoundPct(currentPage, totalPages) ==
    (200 * currentPage + totalPages) \div (2 * totalPages)

Progresses == {0} \cup {RoundPct(c, t) : c \in PageCounts, t \in PageCounts}

\* ------------------------------------------------------------- PrintState
Empty == [type |-> "empty"]
Ready(f) == [type |-> "ready", file |-> f]
Sending(f, j) == [type |-> "sending", file |-> f, jobId |-> j]
Printing(f, j, g, p, n) ==
    [type |-> "printing", file |-> f, jobId |-> j,
     progress |-> g, currentPage |-> p, totalPages |-> n]
Complete(f, n) == [type |-> "complete", file |-> f, totalPages |-> n]
Error(f, m) == [type |-> "error", file |-> f, errorMessage |-> m]

initialState == Empty

\* ------------------------------------------------------------ PrintAction
PrintActions ==
    {[type |-> "SELECT_FILE", file |-> f] : f \in Files}
    \cup {[type |-> "REMOVE_FILE"]}
    \cup {[type |-> "START_SEND", jobId |-> j] : j \in JobIds}
    \cup {[type |-> "START_PRINTING", totalPages |-> n] : n \in PageCounts}
    \cup {[type |-> "PRINT_PROGRESS", currentPage |-> p, progress |-> g] :
            p \in PageCounts, g \in Progresses}
    \cup {[type |-> "COMPLETE"]}
    \cup {[type |-> "ERROR", message |-> m] : m \in Messages}
    \cup {[type |-> "CANCEL"]}
    \cup {[type |-> "RESET"]}
    \cup {[type |-> "UNKNOWN"]}

\* ----------------------------------------------------------- printReducer

\* mutant: SELECT_FILE accepted in every state
ReduceSelectFile_AnyState(s, a) == Ready(a.file)

\* mutant: SELECT_FILE refused only while a job is under way
ReduceSelectFile_UnlessBusy(s, a) ==
    IF s.type = "sending" \/ s.type = "printing" THEN s ELSE Ready(a.file)

ReduceSelectFile(s, a) ==
    IF s.type = "empty" \/ s.type = "ready" THEN Ready(a.file) ELSE s

ReduceRemoveFile(s, a) ==
    IF s.type = "ready" THEN Empty ELSE s

\* mutant: a later START_SEND replaces the job of a sending state
ReduceStartSend_Replaces(s, a) ==
    IF s.type = "ready" \/ s.type = "sending"
    THEN Sending(s.file, a.jobId)
    ELSE s

ReduceStartSend(s, a) ==
    IF s.type = "ready" THEN Sending(s.file, a.jobId) ELSE s


\* mutant: the printing state starts at page 0
ReduceStartPrinting_PageZero(s, a) ==
    IF s.type = "sending"
    THEN Printing(s.file, s.jobId, 0, 0, a.totalPages)
    ELSE s

ReduceStartPrinting(s, a) ==
    IF s.type = "sending"
    THEN Printing(s.file, s.jobId, 0, 1, a.totalPages)
    ELSE s


\* mutant: PRINT_PROGRESS accepted in sending too
ReducePrintProgress_InSending(s, a) ==
    IF s.type = "printing"
    THEN [s EXCEPT !.currentPage = a.currentPage, !.progress = a.progress]
    ELSE IF s.type = "sending"
    THEN [type |-> "sending", file |-> s.file, jobId |-> s.jobId,
          currentPage |-> a.currentPage, progress |-> a.progress]
    ELSE s

ReducePrintProgress(s, a) ==
    IF s.type = "printing"
    THEN [s EXCEPT !.currentPage = a.currentPage, !.progress = a.progress]
    ELSE s


\* mutant: COMPLETE accepted in sending as well, as a one-page job
ReduceComplete_FromSending(s, a) ==
    IF s.type = "printing" THEN Complete(s.file, s.totalPages)
    ELSE IF s.type = "sending" THEN Complete(s.file, 1)
    ELSE s

\* mutant: complete carries the current page as its page count
ReduceComplete_CurrentPage(s, a) ==
    IF s.type = "printing" THEN Complete(s.file, s.currentPage) ELSE s

ReduceComplete(s, a) ==
    IF s.type = "printing" THEN Complete(s.file, s.totalPages) ELSE s


\* mutant: the error state is spread from the failed state and keeps its jobId
ReduceError_KeepsJob(s, a) ==
    IF s.type = "sending" \/ s.type = "printing"
    THEN [type |-> "error", file |-> s.file, jobId |-> s.jobId,
          errorMessage |-> a.message]
    ELSE s

ReduceError(s, a) ==
    IF s.type = "sending" \/ s.type = "printing"
    THEN Error(s.file, a.message)
    ELSE s

ReduceCancel(s, a) ==
    IF s.type = "sending" \/ s.type = "printing" \/ s.type = "error"
    THEN Ready(s.file)
    ELSE s

\* mutant: RESET accepted in error only
ReduceReset_FromErrorOnly(s, a) ==
    IF s.type = "error" THEN Empty ELSE s

ReduceReset(s, a) ==
    IF s.type = "complete" \/ s.type = "error" THEN Empty ELSE s

printReducer(s, a) ==
    CASE a.type = "SELECT_FILE" -> ReduceSelectFile(s, a)
      [] a.type = "REMOVE_FILE" -> ReduceRemoveFile(s, a)
      [] a.type = "START_SEND" -> ReduceStartSend(s, a)
      [] a.type = "START_PRINTING" -> ReduceStartPrinting(s, a)
      [] a.type = "PRINT_PROGRESS" -> ReducePrintProgress(s, a)
      [] a.type = "COMPLETE" -> ReduceComplete(s, a)
      [] a.type = "ERROR" -> ReduceError(s, a)
      [] a.type = "CANCEL" -> ReduceCancel(s, a)
      [] a.type = "RESET" -> ReduceReset(s, a)
      [] OTHER -> s

\* ------------------------------------------------------ absent values
NoAction == [type |-> "NONE"]
NoJob == [jobState |-> 0]
NoData == [state |-> "none"]
NoError == "<none>"
Live == [type |-> "live"]

\* ---------------------------------------------- job-status route (IPP poll)
\* mutant: a held job (4) counts as processing
mapJobState_HeldIsProcessing(ippState) ==
    CASE ippState = 3 -> "pending"
      [] ippState \in {4, 5, 6} -> "processing"
      [] ippState = 7 -> "canceled"
      [] ippState = 8 -> "aborted"
      [] ippState = 9 -> "completed"
      [] OTHER -> "pending"

\* mapJobState: IPP job-state (RFC 8011) to the JobState of the client
mapJobState(ippState) ==
    CASE ippState \in {3, 4} -> "pending"
      [] ippState \in {5, 6} -> "processing"
      [] ippState = 7 -> "canceled"
      [] ippState = 8 -> "aborted"
      [] ippState = 9 -> "completed"
      [] OTHER -> "pending"

RECURSIVE JoinReasons(_)
\* reasons.join(", ")
JoinReasons(rs) ==
    IF Len(rs) = 0 THEN ""
    ELSE IF Len(rs) = 1 THEN rs[1]
    ELSE rs[1] \o ", " \o JoinReasons(Tail(rs))

\* job-state-reasons is a string, an array of strings, or absent
ReasonList(r) ==
    IF r.kind = "array" THEN r.v
    ELSE IF r.kind = "string" /\ r.v # "" THEN <<r.v>>
    ELSE <<>>

GenericJobFailed == "Print job failed"
Undefined == "<undefined>"


\* mutant: the reasons are not consulted
RouteErrorMessage_NoReasons(attrs) ==
    IF attrs.message # "" THEN attrs.message ELSE GenericJobFailed

\* errorMessage built by the route for a canceled or aborted job
RouteErrorMessage(attrs) ==
    IF attrs.message # "" THEN attrs.message
    ELSE IF JoinReasons(ReasonList(attrs.reasons)) # ""
         THEN JoinReasons(ReasonList(attrs.reasons))
    ELSE GenericJobFailed

\* jobAttrs["job-state"] ?? 3
JobStateOr3(attrs) == IF "jobState" \in DOMAIN attrs THEN attrs.jobState ELSE 3

\* The JobStatus the route resolves from the job attributes.  A page count of
\* 0 stands for an absent field: `x || y || undefined` never yields 0.
RouteGetStatus(attrs) ==
    [state |-> mapJobState(JobStateOr3(attrs)),
     currentPage |-> attrs.done,
     totalPages |-> attrs.total,
     errorMessage |->
        IF mapJobState(JobStateOr3(attrs)) \in {"aborted", "canceled"}
        THEN RouteErrorMessage(attrs)
        ELSE Undefined]

\* ------------------------------------------------------------ the printer
TerminalIpp == {7, 8, 9}
NoReasons == [kind |-> "absent", v |-> <<>>]
\* what the printer says about a job it canceled or aborted: a message, a
\* list of reasons, or nothing
DeviceFailures ==
    {[message |-> "jam", reasons |-> NoReasons],
     [message |-> "", reasons |-> [kind |-> "array", v |-> <<"media-jam", "aborted-by-system">>]],
     [message |-> "", reasons |-> NoReasons]}
NoFailure == [message |-> "", reasons |-> NoReasons]

NewJob == [jobState |-> 3, done |-> 0, total |-> 0,
           message |-> "", reasons |-> NoReasons]

\* job-state values the printer can move a job to
IppSuccessors(st) ==
    CASE st = 3 -> {5, 7, 8}
      [] st = 5 -> {7, 8, 9}
      [] OTHER -> {}

\* ------------------------------------------------------------ usePrintFlow
\* jobId and shouldPoll derived from the state on every render
HookJobId(s) ==
    IF s.type = "sending" \/ s.type = "printing" THEN s.jobId ELSE 0

shouldPoll(s) == s.type = "sending" \/ s.type = "printing"

\* printJobStatusOptions: enabled
PollEnabled(s) == shouldPoll(s) /\ HookJobId(s) # 0

RECURSIVE DispatchAll(_, _)
\* the actions dispatched by one handler, applied in order
DispatchAll(s, as) ==
    IF as = <<>> THEN s
    ELSE DispatchAll(printReducer(s, Head(as)), Tail(as))

CompleteCall(f, n, c) ==
    [kind |-> "complete", file |-> f, pages |-> n, message |-> "", color |-> c]
ErrorCall(f, m) ==
    [kind |-> "error", file |-> f, pages |-> 0, message |-> m, color |-> ""]

OrOne(n) == IF n = 0 THEN 1 ELSE n

\* mutant: START_PRINTING is dispatched without a page count too
StatusEffectActions_NoPageCheck(s, d) ==
    IF d = NoData \/ ~shouldPoll(s) THEN <<>>
    ELSE IF d.state = "processing" THEN
        (IF s.type = "sending"
         THEN <<[type |-> "START_PRINTING", totalPages |-> OrOne(d.totalPages)]>>
         ELSE <<>>)
        \o
        (IF s.type = "printing" \/ d.totalPages # 0
         THEN <<[type |-> "PRINT_PROGRESS",
                 currentPage |-> OrOne(d.currentPage),
                 progress |-> RoundPct(OrOne(d.currentPage), OrOne(d.totalPages))]>>
         ELSE <<>>)
    ELSE IF d.state = "completed" THEN <<[type |-> "COMPLETE"]>>
    ELSE IF d.state = "aborted" \/ d.state = "canceled" THEN
        <<[type |-> "ERROR",
           message |-> IF d.errorMessage = Undefined THEN GenericJobFailed
                       ELSE d.errorMessage]>>
    ELSE <<>>

\* what the job-status effect dispatches for the rendered state s and data d
StatusEffectActions(s, d) ==
    IF d = NoData \/ ~shouldPoll(s) THEN <<>>
    ELSE IF d.state = "processing" THEN
        (IF s.type = "sending" /\ d.totalPages # 0
         THEN <<[type |-> "START_PRINTING", totalPages |-> d.totalPages]>>
         ELSE <<>>)
        \o
        (IF s.type = "printing" \/ d.totalPages # 0
         THEN <<[type |-> "PRINT_PROGRESS",
                 currentPage |-> OrOne(d.currentPage),
                 progress |-> RoundPct(OrOne(d.currentPage), OrOne(d.totalPages))]>>
         ELSE <<>>)
    ELSE IF d.state = "completed" THEN <<[type |-> "COMPLETE"]>>
    ELSE IF d.state = "aborted" \/ d.state = "canceled" THEN
        <<[type |-> "ERROR",
           message |-> IF d.errorMessage = Undefined THEN GenericJobFailed
                       ELSE d.errorMessage]>>
    ELSE <<>>

\* the callbacks the job-status effect invokes for the rendered state s and data d
StatusEffectCalls(s, d, color) ==
    IF d = NoData \/ ~shouldPoll(s) THEN <<>>
    ELSE IF d.state = "completed"
        THEN <<CompleteCall(s.file, OrOne(d.totalPages), color)>>
    ELSE IF d.state = "aborted" \/ d.state = "canceled"
        THEN <<ErrorCall(s.file, IF d.errorMessage = Undefined THEN GenericJobFailed
                                 ELSE d.errorMessage)>>
    ELSE <<>>

\* what the query-error effect dispatches and calls for the rendered state s
ErrorEffectActions(s, e) ==
    IF e = NoError \/ ~shouldPoll(s) THEN <<>>
    ELSE <<[type |-> "ERROR", message |-> e]>>

ErrorEffectCalls(s, e) ==
    IF e = NoError \/ ~shouldPoll(s) THEN <<>>
    ELSE <<ErrorCall(s.file, e)>>

\* The query the hook observes is keyed by the job-id of the state: once the
\* state holds no job the observed key is another one, without data or error,
\* and the job the flow no longer holds is not followed further.
Observed(s, v, none) == IF shouldPoll(s) THEN v ELSE none

\* ------------------------------------------------- outcomes of async calls
Resolved(v) == [ok |-> TRUE, v |-> v]
Rejected(m) == [ok |-> FALSE, m |-> m]

\* fetch(): a response with a status (and a Location header, "" when absent),
\* or a rejection of fetch itself
HttpResponse(status, location) == [kind |-> "http", status |-> status, location |-> location]
NetworkError == [kind |-> "neterr"]
FetchFailed == "Failed to fetch"

\* response.ok
ResponseOk(response) == response.status \in 200..299

\* `${response.status}`
StatusText(n) ==
    CASE n = 200 -> "200" [] n = 201 -> "201" [] n = 204 -> "204"
      [] n = 404 -> "404" [] n = 409 -> "409" [] n = 500 -> "500"
      [] n = 502 -> "502" [] n = 503 -> "503"

\* ------------------------------------------- scan driver (lib/api/jobs.ts)
\* the URL the device gives the n-th scan job it creates
JobUrl(n) == "/eSCL/ScanJobs/" \o ToString(n)

\* what the device can answer to POST /eSCL/ScanJobs when its next job is the
\* n-th one: 201 with the URL of the new job or without a Location header, 503,
\* or no answer
CreateResponses(n) ==
    {NetworkError, HttpResponse(201, JobUrl(n)), HttpResponse(201, ""),
     HttpResponse(503, "")}

\* createScanJob with a Location header taken as given
createScanJob_DefaultLocation(response) ==
    IF response.kind = "neterr" THEN Rejected(FetchFailed)
    ELSE IF ~ResponseOk(response)
         THEN Rejected("Failed to create scan job: " \o StatusText(response.status))
    ELSE Resolved(response.location)

\* createScanJob: the job URL of the Location header
createScanJob(response) ==
    IF response.kind = "neterr" THEN Rejected(FetchFailed)
    ELSE IF ~ResponseOk(response)
         THEN Rejected("Failed to create scan job: " \o StatusText(response.status))
    ELSE IF response.location = ""
         THEN Rejected("No Location header in scan job response")
    ELSE Resolved(response.location)

\* the <State> text of /eSCL/ScannerStatus; "" when the document has no State
\* element (parseXmlResponse does not look at the HTTP status)
ScannerTexts == {"Idle", "Processing", "Stopped", "Testing", ""}

ToLowerCase(s) ==
    CASE s = "Idle" -> "idle" [] s = "Processing" -> "processing"
      [] s = "Stopped" -> "stopped" [] s = "Testing" -> "testing"
      [] OTHER -> s

normalizeScannerState(s) ==
    LET lower == ToLowerCase(s)
    IN IF lower \in {"idle", "processing", "stopped"} THEN lower ELSE "idle"

\* what a status poll can bring: the State text, or a failed fetch
StatusResponses == {NetworkError} \cup {[kind |-> "xml", text |-> t] : t \in ScannerTexts}

\* fetchScannerStatus().state
fetchScannerStatus(response) ==
    IF response.kind = "neterr" THEN Rejected(FetchFailed)
    ELSE Resolved(normalizeScannerState(IF response.text = "" THEN "Idle" ELSE response.text))

ScannerStopped == "Scanner stopped unexpectedly"
ScanTimedOut == "Scan timed out"

\* the loop body of waitForScanComplete that keeps waiting on stopped
WaitStep_IgnoresStopped(st) ==
    IF st = "idle" THEN "return" ELSE "sleep"

\* the loop body of waitForScanComplete after onProgress: return on idle,
\* throw on stopped, else sleep pollInterval
WaitStep(st) ==
    IF st = "idle" THEN "return"
    ELSE IF st = "stopped" THEN "throw"
    ELSE "sleep"

DocResponses == {NetworkError, HttpResponse(200, ""), HttpResponse(503, "")}

\* fetchScannedDocument
fetchScannedDocument(response) ==
    IF response.kind = "neterr" THEN Rejected(FetchFailed)
    ELSE IF ~ResponseOk(response)
         THEN Rejected("Failed to fetch scanned document: " \o StatusText(response.status))
    ELSE Resolved("blob")

DeleteResponses == {NetworkError, HttpResponse(204, ""), HttpResponse(404, ""), HttpResponse(500, "")}

\* cancelScanJob
cancelScanJob(response) ==
    IF response.kind = "neterr" THEN Rejected(FetchFailed)
    ELSE IF ~ResponseOk(response) /\ response.status # 404
         THEN Rejected("Failed to cancel scan job: " \o StatusText(response.status))
    ELSE Resolved("void")

\* the catch block of performScan that issues no DELETE
CleanupRequests_None(deleted, jobUrl) == deleted

\* the catch block of performScan: cancelScanJob(jobUrl) sends DELETE jobUrl
CleanupRequests(deleted, jobUrl) == Append(deleted, jobUrl)

\* the catch block of performScan letting a cleanup failure through
Rethrown_CleanupFirst(error, cleanup) == IF cleanup.ok THEN error ELSE cleanup.m

\* await cancelScanJob(jobUrl).catch(() => {}); throw error
Rethrown(error, cleanup) == error

\* --------------------------------- print submission (api/print/route.ts)
\* what the printer can answer to Print-Job: a transport error, or a response
\* with a status code ("" when absent) and with or without job attributes
IppResponses ==
    {[error |-> TRUE, statusCode |-> "", jobAttrs |-> FALSE]}
    \cup {[error |-> FALSE, statusCode |-> c, jobAttrs |-> j] :
            c \in {"successful-ok", "server-error-busy", "client-error-not-possible", ""},
            j \in BOOLEAN}

IppErrorText == "socket hang up"

\* errorMessages[statusCode] || `Printer error: ${statusCode}`
IppStatusMessage(statusCode) ==
    IF statusCode = "server-error-busy" THEN "Printer is busy, please try again"
    ELSE "Printer error: " \o statusCode

\* the Print-Job callback of the POST route
PrintJobCallback(response) ==
    IF response.error THEN Rejected(IppErrorText)
    ELSE IF response.statusCode # "" /\ response.statusCode # "successful-ok"
         THEN Rejected(IppStatusMessage(response.statusCode))
    ELSE IF ~response.jobAttrs THEN Rejected("No job attributes in response")
    ELSE Resolved("job")

\* POST /api/print: 200 with the job, or 502 with the error text
RoutePost(response) ==
    LET result == PrintJobCallback(response)
    IN IF result.ok THEN [kind |-> "http", status |-> 200, error |-> ""]
       ELSE [kind |-> "http", status |-> 502,
             error |-> "Failed to submit print job: " \o result.m]

\* submitPrintJob: errorData.error of a response that is not ok
submitPrintJob(response) ==
    IF response.kind = "neterr" THEN Rejected(FetchFailed)
    ELSE IF ~ResponseOk(response)
         THEN Rejected(IF response.error # "" THEN response.error
                       ELSE "Failed to submit job: Bad Gateway")
    ELSE Resolved("job")

\* ------------------------------------------- CopyState (copy-types.ts)
CopyIdle == [status |-> "idle"]
CopyScanning(progress) == [status |-> "scanning", progress |-> progress]
CopyPrinting(currentCopy, totalCopies) ==
    [status |-> "printing", currentCopy |-> currentCopy, totalCopies |-> totalCopies]
CopyComplete(copies) == [status |-> "complete", copies |-> copies]
CopyError(message, phase) == [status |-> "error", message |-> message, phase |-> phase]

\* phase of the catch block of startCopy: state.status of the render the
\* callback was made in
ErrorPhase(closedStatus) == IF closedStatus = "scanning" THEN "scan" ELSE "print"

\* a run of startCopy: nothing started yet
NoRun == [pc |-> "none", copies |-> 0, closedStatus |-> "idle", jobUrl |-> "",
          error |-> NoError, elapsed |-> 0, progress |-> <<>>, deleted |-> <<>>,
          cleanup |-> "none", scanned |-> FALSE, job |-> 0, cancelledAt |-> "none",
          recorded |-> "none"]

Min(a, b) == IF a < b THEN a ELSE b

\* the progress callback startCopy hands to performScan
OnProgress(c, cancelled, scanState) ==
    IF cancelled THEN c ELSE CopyScanning(scanState)

\* the catch block of startCopy
CatchError(c, cancelled, run, message) ==
    IF cancelled THEN c ELSE CopyError(message, ErrorPhase(run.closedStatus))

\* startCopy going on to the print phase whatever performScan brought
AfterScan_PrintsAnyway(scanOk, cancelled) ==
    IF cancelled THEN "return" ELSE "print"

\* startCopy after `await performScan(...)`: a rejection goes to the catch
\* blocks, a set flag returns, else the print phase begins
AfterScan(scanOk, cancelled) ==
    IF ~scanOk THEN "catch"
    ELSE IF cancelled THEN "return"
    ELSE "print"

\* a throw inside the try block of performScan: the catch block sends the
\* cleanup DELETE and holds the error until it is answered
Caught(run, message) ==
    [run EXCEPT !.pc = "cleanup", !.error = message,
                !.deleted = CleanupRequests(run.deleted, run.jobUrl)]

\* the promise of a startCopy call once the call is over: the async callback
\* returns on every path, its catch block included, and never rethrows
StartCopyPromise == Resolved("undefined")

\* handleStartCopy of the copier after `await startCopy(copies, settings)`:
\* the status of the entry addCopy puts into the recent copies
handleStartCopy(settled) == IF settled.ok THEN "completed" ELSE "failed"

\* a run of startCopy is over and the awaiting handleStartCopy goes on
Settled(run) == [run EXCEPT !.recorded = handleStartCopy(StartCopyPromise)]

\* createScanJob awaited inside the try block of performScan
ScanNotCreated_InsideTry(run, message) == Caught(run, message)

\* a rejection of `await createScanJob(settings)`, which stands before the
\* try block of performScan: the run ends with the creation error
ScanNotCreated(run, message) ==
    [run EXCEPT !.pc = "done", !.error = message]

\* ------------------------------------------------------------------ state
\* ------------------------------------------- device telemetry (printer-api)
\* all sequences over S of length at most n
SeqsUpTo(S, n) == UNION {[1..k -> S] : k \in 0..n}

\* x || d on the text of an XML element: an absent or empty text gives d
OrDefault(x, d) == IF x = "" THEN d ELSE x

\* order.indexOf(x), positions counted from 0
IndexOf(order, x) ==
    IF \E i \in 1..Len(order) : order[i] = x
    THEN (CHOOSE i \in 1..Len(order) :
              order[i] = x /\ \A j \in 1..(i - 1) : order[j] # x) - 1
    ELSE -1

StationOrder == <<"K", "C", "M", "Y">>
\* the keys of colorMap
InkColors == {"K", "C", "M", "Y"}

\* ConsumableInfo elements the device lists: type and label code
ConsumableTypes == {"ink", "printhead"}
LabelCodes == {"K", "C", "M", "Y", "CMY", ""}
Consumables == [typeEnum : ConsumableTypes, labelCode : LabelCodes]

RECURSIVE KeepInk(_)
\* the loop of fetchInkLevels: non-ink items and unknown label codes are skipped
KeepInk(consumables) ==
    IF consumables = <<>> THEN <<>>
    ELSE LET c == Head(consumables)
         IN IF c.typeEnum # "ink" \/ c.labelCode = "" \/ c.labelCode \notin InkColors
            THEN KeepInk(Tail(consumables))
            ELSE <<[color |-> c.labelCode]>> \o KeepInk(Tail(consumables))

RECURSIVE InsertByStation(_, _)
\* x placed after every entry that does not compare greater (sort is stable)
InsertByStation(sorted, x) ==
    IF sorted = <<>> THEN <<x>>
    ELSE IF IndexOf(StationOrder, Head(sorted).color) - IndexOf(StationOrder, x.color) > 0
         THEN <<x>> \o sorted
    ELSE <<Head(sorted)>> \o InsertByStation(Tail(sorted), x)

RECURSIVE SortByStation(_)
\* inkLevels.sort((a, b) => order.indexOf(a.color) - order.indexOf(b.color))
SortByStation(levels) ==
    IF levels = <<>> THEN <<>>
    ELSE InsertByStation(SortByStation(SubSeq(levels, 1, Len(levels) - 1)),
                         levels[Len(levels)])

\* mutant: the entries are returned in the order the device lists them
fetchInkLevels_DeviceOrder(consumables) == KeepInk(consumables)

fetchInkLevels(consumables) == SortByStation(KeepInk(consumables))

\* fetchPaperTray: MediaState of MediaHandlingDyn.xml
MediaStateTexts == {"ready", "missing", "jam", "open", ""}
fetchPaperTray(mediaState) ==
    [state |-> IF OrDefault(mediaState, "ready") \in {"ready", "missing", "jam"}
               THEN OrDefault(mediaState, "ready")
               ELSE "ready"]

\* fetchPrinterStatus: the Severity text of every Alert element
SeverityTexts == {"Info", "Warning", "Error", "Critical", ""}
fetchPrinterStatus(severities) ==
    [alerts |-> [i \in 1..Len(severities) |->
                    [severity |-> OrDefault(severities[i], "Info")]]]

\* fetchScannerStatus of printer-api: the State text of eSCL/ScannerStatus
ScannerStateTexts == {"Idle", "Processing", "Stopped", ""}
fetchScannerState(stateText) == [state |-> OrDefault(stateText, "Idle")]

\* fetchJobList: JobCategory and JobState of every Job element
JobCategoryTexts == {"Print", "Scan", "Copy", "Fax", "Maintenance", ""}
JobStateTexts == {"Pending", "Processing", "Completed", "Canceled", "Aborted",
                  "Paused", ""}
JobXmls == [categoryText : JobCategoryTexts, stateText : JobStateTexts]
\* the jobs the current-job poll of the provider is answered with
ActiveJobXmls ==
    [categoryText : {"Print", "Scan", "Copy", "Fax"},
     stateText : {"Processing", "Completed"}]
fetchJobList(jobXmls) ==
    [i \in 1..Len(jobXmls) |->
        [category |->
            IF OrDefault(jobXmls[i].categoryText, "Print")
                  \in {"Print", "Scan", "Copy", "Fax"}
            THEN OrDefault(jobXmls[i].categoryText, "Print")
            ELSE "Print",
         state |->
            IF OrDefault(jobXmls[i].stateText, "Pending")
                  \in {"Pending", "Processing", "Completed", "Canceled", "Aborted"}
            THEN OrDefault(jobXmls[i].stateText, "Pending")
            ELSE "Pending"]]

Null == [absent |-> TRUE]

\* fetchCurrentJob: jobs.find((job) => job.state === "Processing") || null
fetchCurrentJob(jobXmls) ==
    LET jobs == fetchJobList(jobXmls)
    IN IF \E i \in 1..Len(jobs) : jobs[i].state = "Processing"
       THEN jobs[CHOOSE i \in 1..Len(jobs) :
                    /\ jobs[i].state = "Processing"
                    /\ \A j \in 1..(i - 1) : jobs[j].state # "Processing"]
       ELSE Null

\* ------------------------------------------------- PrinterStatusProvider
HasSeverity(list, severity) ==
    \E i \in 1..Len(list) : list[i].severity = severity

\* mutant: an unreachable printer is reported before its last alerts
computeStatus_OfflineFirst(list, job, scanner, isOffline) ==
    IF isOffline THEN "offline"
    ELSE IF HasSeverity(list, "Error") THEN "error"
    ELSE IF job # Null /\ job.state = "Processing"
            /\ job.category \in {"Copy", "Scan", "Print"}
         THEN CASE job.category = "Copy" -> "copying"
                [] job.category = "Scan" -> "scanning"
                [] OTHER -> "printing"
    ELSE IF scanner # Null /\ scanner.state = "Processing" THEN "scanning"
    ELSE IF HasSeverity(list, "Warning") THEN "warning"
    ELSE "ready"

computeStatus(list, job, scanner, isOffline) ==
    IF HasSeverity(list, "Error") THEN "error"
    ELSE IF isOffline THEN "offline"
    ELSE IF job # Null /\ job.state = "Processing"
            /\ job.category \in {"Copy", "Scan", "Print"}
         THEN CASE job.category = "Copy" -> "copying"
                [] job.category = "Scan" -> "scanning"
                [] OTHER -> "printing"
    ELSE IF scanner # Null /\ scanner.state = "Processing" THEN "scanning"
    ELSE IF HasSeverity(list, "Warning") THEN "warning"
    ELSE "ready"

\* POLL_INTERVALS.status, in ms
StatusActiveMs == 2000
StatusIdleMs == 5000
StatusCollapsedMs == 10000

\* mutant: the drawer is consulted before the job
printerStatusOptions_DrawerFirst(hasActiveJob, isExpanded) ==
    [refetchInterval |-> IF isExpanded THEN StatusIdleMs
                         ELSE IF hasActiveJob THEN StatusActiveMs
                         ELSE StatusCollapsedMs]

printerStatusOptions(hasActiveJob, isExpanded) ==
    [refetchInterval |-> IF hasActiveJob THEN StatusActiveMs
                         ELSE IF isExpanded THEN StatusIdleMs
                         ELSE StatusCollapsedMs]

\* hasActiveJob = currentJobData?.state === "Processing"
HasActiveJob(job) == job # Null /\ job.state = "Processing"

\* the queries of usePrinterQueries
PrinterQueries == {"status", "ink", "paper", "scanner"}
\* isOffline: every query is in its error state (a query in that state has
\* counted at least one failure)
IsOffline(failedQueries) == failedQueries = PrinterQueries

\* mutant: the drawer opens whenever the alerts hold an error
ExpandOnAlerts_Level(isExpanded, prevHasError, list) ==
    isExpanded \/ HasSeverity(list, "Error")

\* the auto-expand effect on a new alert list: isDrawerExpanded afterwards
ExpandOnAlerts(isExpanded, prevHasError, list) ==
    IF HasSeverity(list, "Error") /\ ~prevHasError THEN TRUE ELSE isExpanded

VARIABLES
    state,        \* the PrintState held by useReducer
    prevState,    \* the state the last dispatched action was applied to
    lastAction,   \* the last action dispatched to the reducer alone
    earlyProgress,\* a PRINT_PROGRESS was dispatched outside printing since the file was selected
    hp,           \* position on the happy path of the reducer test
    colorMode,    \* settingsRef.current.colorMode
    submits,      \* the submit mutations that are pending, oldest first
    nextJobId,    \* the job-id the printer gives the next job it accepts
    dev,          \* the printer's IPP attributes of the job the flow holds
    qdata,        \* jobStatusQuery.data of the query key of the held job
    qerror,       \* jobStatusQuery.error of that query
    cancels,      \* the cancel() calls awaiting their device request
    cbs,          \* onJobComplete / onJobError calls since the flow last took a file or a print request
    copy,         \* the CopyState held by useCopy
    cancelledRef, \* cancelledRef.current of useCopy
    runs,         \* the startCopy calls made so far, each with its position
    reply,        \* the device document the last telemetry fetch received
    record,       \* what that fetch returned
    alerts,       \* printerStatus.alerts of the status query
    currentJob,   \* currentJobQuery.data
    scannerStatus,\* data of the scanner-status query
    failedQueries,\* the queries of usePrinterQueries in their error state
    isDrawerExpanded, \* the drawer flag of the provider
    prevHasErrorRef,  \* prevHasErrorRef.current
    statusInterval    \* the refetch interval the status query runs with

histVars == <<prevState, lastAction, earlyProgress, hp>>
hookVars == <<colorMode, submits, nextJobId, dev, qdata, qerror, cancels, cbs>>
copyVars == <<copy, cancelledRef, runs>>
printVars == <<state, histVars, hookVars>>
parseVars == <<reply, record>>
statusVars == <<alerts, currentJob, scannerStatus, failedQueries,
                isDrawerExpanded, prevHasErrorRef, statusInterval>>
monitorVars == <<parseVars, statusVars>>
vars == <<state, prevState, lastAction, earlyProgress, hp,
          colorMode, submits, nextJobId, dev, qdata, qerror, cancels, cbs,
          copy, cancelledRef, runs,
          reply, record, alerts, currentJob, scannerStatus, failedQueries,
          isDrawerExpanded, prevHasErrorRef, statusInterval>>

NoResponse == [doc |-> "none", body |-> <<>>]
NotFetched == [ok |-> "pending"]

HpOff == [step |-> 7, f |-> "a.pdf", j |-> 1, n |-> 1, p |-> 1, g |-> 0]
HpStart == [HpOff EXCEPT !.step = 0]

\* the hooks and the provider after their first render
InitFlows ==
    /\ state = initialState
    /\ prevState = initialState
    /\ lastAction = NoAction
    /\ earlyProgress = FALSE
    /\ hp = HpStart
    /\ colorMode = "color"
    /\ submits = <<>>
    /\ nextJobId = 1
    /\ dev = NoJob
    /\ qdata = NoData
    /\ qerror = NoError
    /\ cancels = <<>>
    /\ cbs = <<>>
    /\ copy = CopyIdle
    /\ cancelledRef = FALSE
    /\ runs = [r \in 1..MaxRuns |-> NoRun]
    /\ alerts = <<>>
    /\ currentJob = Null
    /\ scannerStatus = Null
    /\ failedQueries = {}
    /\ isDrawerExpanded = FALSE
    /\ prevHasErrorRef = FALSE
    /\ statusInterval = printerStatusOptions(FALSE, FALSE).refetchInterval

Init ==
    /\ InitFlows
    /\ reply = NoResponse
    /\ record = NotFetched

\* The happy path of the reducer test: SELECT_FILE, START_SEND, START_PRINTING,
\* PRINT_PROGRESS, COMPLETE, RESET dispatched in that order from empty.
HpAdvance(h, a, after) ==
    IF h.step \in {0, 6} /\ a.type = "SELECT_FILE"
        THEN [HpOff EXCEPT !.step = 1, !.f = a.file]
    ELSE IF h.step = 1 /\ a.type = "START_SEND"
        THEN [h EXCEPT !.step = 2, !.j = a.jobId]
    ELSE IF h.step = 2 /\ a.type = "START_PRINTING"
        THEN [h EXCEPT !.step = 3, !.n = a.totalPages]
    ELSE IF h.step = 3 /\ a.type = "PRINT_PROGRESS"
        THEN [h EXCEPT !.step = 4, !.p = a.currentPage, !.g = a.progress]
    ELSE IF h.step = 4 /\ a.type = "COMPLETE"
        THEN [h EXCEPT !.step = 5]
    ELSE IF h.step = 5 /\ a.type = "RESET"
        THEN [h EXCEPT !.step = 6]
    ELSE IF after.type = "empty" THEN HpStart
    ELSE HpOff

\* dispatch(action) on the reducer alone
Dispatch(a) ==
    /\ state' = printReducer(state, a)
    /\ prevState' = state
    /\ lastAction' = a
    /\ earlyProgress' =
          IF a.type = "PRINT_PROGRESS" /\ state.type # "printing" THEN TRUE
          ELSE IF state'.type \in {"empty", "ready"} THEN FALSE
          ELSE earlyProgress
    /\ hp' = HpAdvance(hp, a, state')
    /\ UNCHANGED <<hookVars, copyVars, monitorVars>>

ReducerNext == \E a \in PrintActions : Dispatch(a)

ReducerSpec == Init /\ [][ReducerNext]_vars

\* ------------------------------------------------- actions of usePrintFlow
\* state, data and error after the handler's dispatches: leaving
\* sending/printing changes the observed query key
Settle(s2, d2, e2) ==
    /\ state' = s2
    /\ qdata' = Observed(s2, d2, NoData)
    /\ qerror' = Observed(s2, e2, NoError)

\* selectFile(file)
SelectFile(f) ==
    /\ Settle(printReducer(state, [type |-> "SELECT_FILE", file |-> f]), qdata, qerror)
    /\ dev' = Observed(state', dev, NoJob)
    /\ cbs' = IF state' = state THEN cbs ELSE <<>>
    /\ UNCHANGED <<monitorVars, copyVars, histVars, colorMode, submits, nextJobId, cancels>>

\* removeFile()
RemoveFile ==
    /\ Settle(printReducer(state, [type |-> "REMOVE_FILE"]), qdata, qerror)
    /\ dev' = Observed(state', dev, NoJob)
    /\ cbs' = IF state' = state THEN cbs ELSE <<>>
    /\ UNCHANGED <<monitorVars, copyVars, histVars, colorMode, submits, nextJobId, cancels>>

\* reset()
Reset ==
    /\ Settle(printReducer(state, [type |-> "RESET"]), qdata, qerror)
    /\ dev' = Observed(state', dev, NoJob)
    /\ cbs' = IF state' = state THEN cbs ELSE <<>>
    /\ UNCHANGED <<monitorVars, copyVars, histVars, colorMode, submits, nextJobId, cancels>>

\* the settings prop changes: settingsRef.current = settings
ChangeSettings(c) ==
    /\ c # colorMode
    /\ colorMode' = c
    /\ UNCHANGED <<monitorVars, copyVars, state, histVars, submits, nextJobId, dev, qdata, qerror, cancels, cbs>>

\* The options closure a pending mutation runs its callbacks with: the
\* observer's current mutation gets the options of every render, an earlier
\* one keeps those of the render in which the next mutate() was called.
Superseded(rec) == IF rec.snap = Live THEN [rec EXCEPT !.snap = state] ELSE rec

\* startPrint(): submitJobMutation.mutate(state.file)
StartPrint ==
    /\ state.type = "ready"
    /\ Len(submits) < MaxPending
    /\ submits' = Append([i \in 1..Len(submits) |-> Superseded(submits[i])],
                         [file |-> state.file, snap |-> Live])
    /\ cbs' = <<>>
    /\ UNCHANGED <<monitorVars, copyVars, state, histVars, colorMode, nextJobId, dev, qdata, qerror, cancels>>

\* mutant: the settled request stays among the pending ones
RemoveAt_StillPending(seq, i) == seq

RemoveAt(seq, i) ==
    [k \in 1..(Len(seq) - 1) |-> IF k < i THEN seq[k] ELSE seq[k + 1]]

\* submitJobMutation onSuccess: the printer accepted the job
SubmitSucceeds(i) ==
    /\ i \in 1..Len(submits)
    /\ nextJobId <= MaxJobs
    /\ nextJobId' = nextJobId + 1
    /\ submits' = RemoveAt(submits, i)
    /\ LET s2 == printReducer(state, [type |-> "START_SEND", jobId |-> nextJobId])
       IN /\ Settle(s2, IF s2 = state THEN qdata ELSE NoData,
                        IF s2 = state THEN qerror ELSE NoError)
          /\ dev' = IF s2 = state THEN dev ELSE NewJob
    /\ UNCHANGED <<monitorVars, copyVars, histVars, colorMode, cancels, cbs>>

\* submitJobMutation onError: submitPrintJob rejected with message m
SubmitFails(i, m) ==
    /\ i \in 1..Len(submits)
    /\ submits' = RemoveAt(submits, i)
    /\ LET closure == IF submits[i].snap = Live THEN state ELSE submits[i].snap
       IN cbs' = IF closure.type = "ready"
                 THEN Append(cbs, ErrorCall(closure.file, m))
                 ELSE cbs
    /\ Settle(printReducer(state, [type |-> "ERROR", message |-> m]), qdata, qerror)
    /\ dev' = Observed(state', dev, NoJob)
    /\ UNCHANGED <<monitorVars, copyVars, histVars, colorMode, nextJobId, cancels>>

\* the printer works on the held job: its job-state and page counters change
DeviceStep(st, done, total, fail) ==
    /\ dev # NoJob
    /\ dev.jobState \notin TerminalIpp
    /\ st \in IppSuccessors(dev.jobState) \cup {dev.jobState}
    /\ done >= dev.done
    /\ dev.total # 0 => total = dev.total
    /\ st \in {7, 8} => (done = dev.done /\ total = dev.total)
    /\ st \notin {7, 8} => fail = NoFailure
    /\ dev' = [jobState |-> st, done |-> done, total |-> total,
               message |-> fail.message, reasons |-> fail.reasons]
    /\ dev' # dev
    /\ UNCHANGED <<monitorVars, copyVars, state, histVars, colorMode, submits, nextJobId, qdata, qerror, cancels, cbs>>

\* a job-status fetch resolves: the job-status effect runs on the new data
PollOk ==
    /\ PollEnabled(state)
    /\ LET d == RouteGetStatus(dev)
           s2 == DispatchAll(state, StatusEffectActions(state, d))
       IN /\ d # qdata
          /\ Settle(s2, d, NoError)
          /\ cbs' = cbs \o StatusEffectCalls(state, d, colorMode)
          /\ dev' = Observed(s2, dev, NoJob)
    /\ UNCHANGED <<monitorVars, copyVars, histVars, colorMode, submits, nextJobId, cancels>>

\* a job-status fetch fails (after its retry): the query-error effect runs
PollFail(m) ==
    /\ PollEnabled(state)
    /\ LET s2 == DispatchAll(state, ErrorEffectActions(state, m))
       IN /\ Settle(s2, qdata, m)
          /\ cbs' = cbs \o ErrorEffectCalls(state, m)
          /\ dev' = Observed(s2, dev, NoJob)
    /\ UNCHANGED <<monitorVars, copyVars, histVars, colorMode, submits, nextJobId, cancels>>

\* cancel() in sending or printing: the device cancel request is sent and awaited
CancelStart ==
    /\ state.type = "sending" \/ state.type = "printing"
    /\ Len(cancels) < MaxCancels
    /\ cancels' = Append(cancels, [jobId |-> state.jobId, file |-> state.file,
                                   phase |-> "sent"])
    /\ UNCHANGED <<monitorVars, copyVars, state, histVars, colorMode, submits, nextJobId, dev, qdata, qerror, cbs>>

\* cancel() in any other state: CANCEL is dispatched at once
CancelNow ==
    /\ ~(state.type = "sending" \/ state.type = "printing")
    /\ Settle(printReducer(state, [type |-> "CANCEL"]), qdata, qerror)
    /\ state' # state
    /\ UNCHANGED <<monitorVars, copyVars, histVars, colorMode, submits, nextJobId, dev, cancels, cbs>>

\* the cancel request is answered: Cancel-Job reached the printer or not, and
\* the DELETE route answered 204 (ok) or failed
CancelAnswered(i, reached, ok) ==
    /\ i \in 1..Len(cancels)
    /\ cancels[i].phase = "sent"
    /\ ok => reached
    /\ cancels' = [cancels EXCEPT ![i].phase = IF ok THEN "ok" ELSE "fail"]
    /\ dev' = IF reached /\ dev # NoJob /\ HookJobId(state) = cancels[i].jobId
                 /\ dev.jobState \notin TerminalIpp
              THEN [dev EXCEPT !.jobState = 7,
                               !.reasons = [kind |-> "string", v |-> "job-canceled-by-user"]]
              ELSE dev
    /\ UNCHANGED <<monitorVars, copyVars, state, histVars, colorMode, submits, nextJobId, qdata, qerror, cbs>>

\* mutateAsync settles (resolved, or rejected and caught): removeQueries for
\* the job of the call, then dispatch CANCEL
CancelSettles(i) ==
    /\ i \in 1..Len(cancels)
    /\ cancels[i].phase \in {"ok", "fail"}
    /\ cancels' = RemoveAt(cancels, i)
    /\ LET s2 == printReducer(state, [type |-> "CANCEL"])
           gone == HookJobId(state) = cancels[i].jobId
       IN /\ Settle(s2, IF gone THEN NoData ELSE qdata, IF gone THEN NoError ELSE qerror)
          /\ dev' = Observed(s2, dev, NoJob)
    /\ UNCHANGED <<monitorVars, copyVars, histVars, colorMode, submits, nextJobId, cbs>>

Next ==
    \/ \E f \in Files : SelectFile(f)
    \/ RemoveFile
    \/ Reset
    \/ \E c \in {"color", "bw"} : ChangeSettings(c)
    \/ StartPrint
    \/ \E i \in 1..MaxPending : SubmitSucceeds(i)
    \/ \E i \in 1..MaxPending, m \in Messages : SubmitFails(i, m)
    \/ \E st \in 3..9, done \in 0..MaxPages, total \in 0..MaxPages,
          fail \in DeviceFailures :
          DeviceStep(st, done, total, fail)
    \/ PollOk
    \/ \E m \in Messages : PollFail(m)
    \/ CancelStart
    \/ CancelNow
    \/ \E i \in 1..MaxCancels, reached \in BOOLEAN, ok \in BOOLEAN :
          CancelAnswered(i, reached, ok)
    \/ \E i \in 1..MaxCancels : CancelSettles(i)

Spec == Init /\ [][Next]_vars

\* ------------------------------------- actions of useCopy and performScan
InFlight(run) == run.pc \notin {"none", "done"}
ScanPcs == {"create", "poll", "sleep", "fetch", "cleanup"}

\* the scan jobs the device has created so far
ScanJobsCreated == Cardinality({r \in 1..MaxRuns : runs[r].jobUrl # ""})

\* the run the next startCopy call makes
NextRun == CHOOSE r \in 1..MaxRuns :
              runs[r].pc = "none" /\ \A q \in 1..(r - 1) : runs[q].pc # "none"

\* startCopy(copies, settings), offered by the copier while the state is idle:
\* the flag is cleared, the state enters scanning and performScan sends
\* POST /eSCL/ScanJobs
StartCopy(n) ==
    /\ copy.status = "idle"
    /\ \E r \in 1..MaxRuns : runs[r].pc = "none"
    /\ cancelledRef' = FALSE
    /\ copy' = CopyScanning("Starting scan...")
    /\ runs' = [runs EXCEPT ![NextRun] =
                   [NoRun EXCEPT !.pc = "create", !.copies = n,
                                 !.closedStatus = copy.status]]
    /\ UNCHANGED <<printVars, monitorVars>>

\* createScanJob settles: onProgress("processing") and the first status poll,
\* or performScan rejects into the catch block of startCopy
CreateAnswered(r, response) ==
    /\ runs[r].pc = "create"
    /\ LET result == createScanJob(response)
       IN IF result.ok
          THEN /\ copy' = OnProgress(copy, cancelledRef, "processing")
               /\ runs' = [runs EXCEPT ![r].pc = "poll", ![r].jobUrl = result.v,
                                       ![r].progress = <<"processing">>]
          ELSE /\ copy' = CatchError(copy, cancelledRef, runs[r], result.m)
               /\ runs' = [runs EXCEPT ![r] = Settled(ScanNotCreated(runs[r], result.m))]
    /\ UNCHANGED <<cancelledRef, printVars, monitorVars>>

\* a status poll of waitForScanComplete settles after dt ticks
PollAnswered(r, response, dt) ==
    /\ runs[r].pc = "poll"
    /\ LET status == fetchScannerStatus(response)
           run == [runs[r] EXCEPT !.elapsed = Min(@ + dt, MaxWaitTicks)]
       IN IF ~status.ok
          THEN /\ copy' = copy
               /\ runs' = [runs EXCEPT ![r] = Caught(run, status.m)]
          ELSE /\ copy' = OnProgress(copy, cancelledRef, status.v)
               /\ LET told == [run EXCEPT !.progress = Append(@, status.v)]
                  IN runs' = [runs EXCEPT ![r] =
                        CASE WaitStep(status.v) = "return" -> [told EXCEPT !.pc = "fetch"]
                          [] WaitStep(status.v) = "throw" -> Caught(told, ScannerStopped)
                          [] OTHER -> [told EXCEPT !.pc = "sleep"]]
    /\ UNCHANGED <<cancelledRef, printVars, monitorVars>>

\* the pollInterval sleep ends and the loop condition is evaluated
SleepDone(r) ==
    /\ runs[r].pc = "sleep"
    /\ LET run == [runs[r] EXCEPT !.elapsed = Min(@ + 1, MaxWaitTicks)]
       IN runs' = [runs EXCEPT ![r] =
                      IF run.elapsed < MaxWaitTicks THEN [run EXCEPT !.pc = "poll"]
                      ELSE Caught(run, ScanTimedOut)]
    /\ UNCHANGED <<copy, cancelledRef, printVars, monitorVars>>

\* fetchScannedDocument settles: performScan returns the blob and startCopy
\* goes on to the print phase, or the catch block of performScan runs
FetchAnswered(r, response) ==
    /\ runs[r].pc = "fetch"
    /\ LET result == fetchScannedDocument(response)
           next == AfterScan(result.ok, cancelledRef)
       IN /\ copy' = IF next = "print" THEN CopyPrinting(1, runs[r].copies) ELSE copy
          /\ runs' = [runs EXCEPT ![r] =
                CASE next = "catch" -> Caught(runs[r], result.m)
                  [] next = "return" ->
                        Settled([runs[r] EXCEPT !.pc = "done", !.scanned = result.ok])
                  [] OTHER -> [runs[r] EXCEPT !.pc = "submit", !.scanned = result.ok]]
    /\ UNCHANGED <<cancelledRef, printVars, monitorVars>>

\* the cleanup DELETE settles: performScan rethrows into the catch block of
\* startCopy
CleanupAnswered(r, response) ==
    /\ runs[r].pc = "cleanup"
    /\ LET cleanup == cancelScanJob(response)
           message == Rethrown(runs[r].error, cleanup)
       IN /\ copy' = CatchError(copy, cancelledRef, runs[r], message)
          /\ runs' = [runs EXCEPT ![r] =
                        Settled([runs[r] EXCEPT !.pc = "done", !.error = message,
                                   !.cleanup = IF cleanup.ok THEN "ok" ELSE "failed"])]
    /\ UNCHANGED <<cancelledRef, printVars, monitorVars>>

\* submitPrintJob settles
SubmitAnswered(r, response) ==
    /\ runs[r].pc = "submit"
    /\ LET result == submitPrintJob(response)
       IN IF result.ok
          THEN /\ copy' = IF cancelledRef THEN copy ELSE CopyComplete(runs[r].copies)
               /\ runs' = [runs EXCEPT ![r] =
                             Settled([runs[r] EXCEPT !.pc = "done", !.job = 3])]
          ELSE /\ copy' = CatchError(copy, cancelledRef, runs[r], result.m)
               /\ runs' = [runs EXCEPT ![r] =
                             Settled([runs[r] EXCEPT !.pc = "done", !.error = result.m])]
    /\ UNCHANGED <<cancelledRef, printVars, monitorVars>>

\* the printer works on a print job a copy run submitted
PrintJobStep(r) ==
    /\ runs[r].job \in {3, 5}
    /\ runs' = [runs EXCEPT ![r].job = IF @ = 3 THEN 5 ELSE 9]
    /\ UNCHANGED <<copy, cancelledRef, printVars, monitorVars>>

\* cancel(), offered while scanning or printing
CopyCancel ==
    /\ copy.status \in {"scanning", "printing"}
    /\ cancelledRef' = TRUE
    /\ copy' = CopyIdle
    /\ runs' = [r \in 1..MaxRuns |->
                  IF InFlight(runs[r]) /\ runs[r].cancelledAt = "none"
                  THEN [runs[r] EXCEPT !.cancelledAt =
                            IF runs[r].pc \in ScanPcs THEN "scan" ELSE "print"]
                  ELSE runs[r]]
    /\ UNCHANGED <<printVars, monitorVars>>

\* reset(), offered in complete and in error
CopyReset ==
    /\ copy.status \in {"complete", "error"}
    /\ cancelledRef' = FALSE
    /\ copy' = CopyIdle
    /\ UNCHANGED <<runs, printVars, monitorVars>>

CopyNext ==
    \/ \E n \in 1..MaxCopies : StartCopy(n)
    \/ \E r \in 1..MaxRuns, response \in CreateResponses(ScanJobsCreated + 1) :
          CreateAnswered(r, response)
    \/ \E r \in 1..MaxRuns, response \in StatusResponses, dt \in 0..1 :
          PollAnswered(r, response, dt)
    \/ \E r \in 1..MaxRuns : SleepDone(r)
    \/ \E r \in 1..MaxRuns, response \in DocResponses : FetchAnswered(r, response)
    \/ \E r \in 1..MaxRuns, response \in DeleteResponses : CleanupAnswered(r, response)
    \/ \E r \in 1..MaxRuns,
          response \in {NetworkError} \cup {RoutePost(i) : i \in IppResponses} :
          SubmitAnswered(r, response)
    \/ \E r \in 1..MaxRuns : PrintJobStep(r)
    \/ CopyCancel
    \/ CopyReset

CopySpec == Init /\ [][CopyNext]_vars

\* --------------------------------------------- the print and the copy page
\* One page is mounted at a time, and a page starts from the initial state
\* of its hook: the print flow runs while the copier has done nothing, the
\* copier while the print flow has done nothing.  On the print page the user
\* leaves the settings alone and never cancels.
PrintPageFresh ==
    /\ state = initialState /\ prevState = initialState /\ lastAction = NoAction
    /\ earlyProgress = FALSE /\ hp = HpStart /\ colorMode = "color"
    /\ submits = <<>> /\ nextJobId = 1 /\ dev = NoJob /\ qdata = NoData
    /\ qerror = NoError /\ cancels = <<>> /\ cbs = <<>>

CopyPageFresh ==
    /\ copy = CopyIdle /\ cancelledRef = FALSE
    /\ runs = [r \in 1..MaxRuns |-> NoRun]

OnPrintPage ==
    /\ CopyPageFresh
    /\ \/ \E f \in Files : SelectFile(f)
       \/ RemoveFile
       \/ Reset
       \/ StartPrint
       \/ \E i \in 1..MaxPending : SubmitSucceeds(i)
       \/ \E i \in 1..MaxPending, m \in Messages : SubmitFails(i, m)
       \/ \E st \in 3..9, done \in 0..MaxPages, total \in 0..MaxPages,
             fail \in DeviceFailures :
             DeviceStep(st, done, total, fail)
       \/ PollOk
       \/ \E m \in Messages : PollFail(m)

OnCopyPage == PrintPageFresh /\ CopyNext

AppNext == OnPrintPage \/ OnCopyPage

AppSpec == Init /\ [][AppNext]_vars

\* ------------------------------- the telemetry fetchers and the status route
\* IPP job attributes a Get-Job-Attributes response can carry; a record
\* without jobState is a response without the job-state attribute
IppJobStates == 2..10
IppAttributes ==
    [jobState : IppJobStates, done : 0..MaxPages, total : 0..MaxPages,
     message : {"", "jam"}, reasons : {NoReasons}]
    \cup [done : 0..MaxPages, total : 0..MaxPages,
          message : {"", "jam"}, reasons : {NoReasons}]

\* the documents a fetcher can receive from the device
DeviceReplies ==
    {[doc |-> "ConsumableConfigDyn", body |-> c] :
        c \in SeqsUpTo(Consumables, MaxConsumables)}
    \cup {[doc |-> "MediaHandlingDyn", body |-> m] : m \in MediaStateTexts}
    \cup {[doc |-> "ProductStatusDyn", body |-> a] :
        a \in SeqsUpTo(SeverityTexts, MaxAlerts)}
    \cup {[doc |-> "JobList", body |-> j] : j \in SeqsUpTo(JobXmls, MaxListedJobs)}
    \cup {[doc |-> "Get-Job-Attributes", body |-> t] : t \in IppAttributes}

\* a fetcher is called on a document of the device, nothing parsed yet
TelemetryInit ==
    /\ InitFlows
    /\ reply \in DeviceReplies
    /\ record = NotFetched

\* fetchInkLevels() on the consumables of ConsumableConfigDyn.xml
FetchInk ==
    /\ record = NotFetched /\ reply.doc = "ConsumableConfigDyn"
    /\ record' = Resolved(fetchInkLevels(reply.body))
    /\ UNCHANGED <<printVars, copyVars, statusVars, reply>>

\* fetchPaperTray() on the MediaState of MediaHandlingDyn.xml
FetchPaper ==
    /\ record = NotFetched /\ reply.doc = "MediaHandlingDyn"
    /\ record' = Resolved(fetchPaperTray(reply.body))
    /\ UNCHANGED <<printVars, copyVars, statusVars, reply>>

\* fetchPrinterStatus() on the alert severities of ProductStatusDyn.xml
FetchStatus ==
    /\ record = NotFetched /\ reply.doc = "ProductStatusDyn"
    /\ record' = Resolved(fetchPrinterStatus(reply.body))
    /\ UNCHANGED <<printVars, copyVars, statusVars, reply>>

\* fetchJobList() on the jobs of the JobList
FetchJobs ==
    /\ record = NotFetched /\ reply.doc = "JobList"
    /\ record' = Resolved(fetchJobList(reply.body))
    /\ UNCHANGED <<printVars, copyVars, statusVars, reply>>

\* GET of the job-status route on the attributes of the job
GetJobStatus ==
    /\ record = NotFetched /\ reply.doc = "Get-Job-Attributes"
    /\ record' = Resolved(RouteGetStatus(reply.body))
    /\ UNCHANGED <<printVars, copyVars, statusVars, reply>>

TelemetryNext ==
    \/ FetchInk
    \/ FetchPaper
    \/ FetchStatus
    \/ FetchJobs
    \/ GetJobStatus

TelemetrySpec == TelemetryInit /\ [][TelemetryNext]_vars

\* ------------------------------------- actions of PrinterStatusProvider
\* the refetch interval the status query runs with after a render
RenderedInterval(job, expanded) ==
    printerStatusOptions(HasActiveJob(job), expanded).refetchInterval

\* the status query resolves: new alerts, then the auto-expand effect
StatusPoll(severities) ==
    /\ alerts' = fetchPrinterStatus(severities).alerts
    /\ failedQueries' = failedQueries \ {"status"}
    /\ isDrawerExpanded' = ExpandOnAlerts(isDrawerExpanded, prevHasErrorRef, alerts')
    /\ prevHasErrorRef' = HasSeverity(alerts', "Error")
    /\ statusInterval' = RenderedInterval(currentJob, isDrawerExpanded')
    /\ <<alerts', failedQueries'>> # <<alerts, failedQueries>>
    /\ UNCHANGED <<printVars, copyVars, parseVars, currentJob, scannerStatus>>

\* the current-job query resolves
CurrentJobPoll(jobXmls) ==
    /\ currentJob' = fetchCurrentJob(jobXmls)
    /\ currentJob' # currentJob
    /\ statusInterval' = RenderedInterval(currentJob', isDrawerExpanded)
    /\ UNCHANGED <<printVars, copyVars, parseVars, alerts, scannerStatus,
                   failedQueries, isDrawerExpanded, prevHasErrorRef>>

\* the scanner-status query resolves
ScannerPoll(stateText) ==
    /\ scannerStatus' = fetchScannerState(stateText)
    /\ failedQueries' = failedQueries \ {"scanner"}
    /\ <<scannerStatus', failedQueries'>> # <<scannerStatus, failedQueries>>
    /\ UNCHANGED <<printVars, copyVars, parseVars, alerts, currentJob,
                   isDrawerExpanded, prevHasErrorRef, statusInterval>>

\* the ink or the paper query resolves (their data are not part of the status)
QuerySucceeds(q) ==
    /\ q \in failedQueries
    /\ failedQueries' = failedQueries \ {q}
    /\ UNCHANGED <<printVars, copyVars, parseVars, alerts, currentJob, scannerStatus,
                   isDrawerExpanded, prevHasErrorRef, statusInterval>>

\* a query fails after its retry: it enters the error state and keeps its data
QueryFails(q) ==
    /\ q \notin failedQueries
    /\ failedQueries' = failedQueries \cup {q}
    /\ UNCHANGED <<printVars, copyVars, parseVars, alerts, currentJob, scannerStatus,
                   isDrawerExpanded, prevHasErrorRef, statusInterval>>

\* setDrawerExpanded(expanded) called by the drawer
SetDrawerExpanded(expanded) ==
    /\ expanded # isDrawerExpanded
    /\ isDrawerExpanded' = expanded
    /\ statusInterval' = RenderedInterval(currentJob, expanded)
    /\ UNCHANGED <<printVars, copyVars, parseVars, alerts, currentJob, scannerStatus,
                   failedQueries, prevHasErrorRef>>

StatusNext ==
    \/ \E severities \in SeqsUpTo(SeverityTexts, MaxAlerts) : StatusPoll(severities)
    \/ \E jobXmls \in SeqsUpTo(ActiveJobXmls, MaxListedJobs) : CurrentJobPoll(jobXmls)
    \/ \E stateText \in ScannerStateTexts : ScannerPoll(stateText)
    \/ \E q \in {"ink", "paper"} : QuerySucceeds(q)
    \/ \E q \in PrinterQueries : QueryFails(q)
    \/ \E expanded \in BOOLEAN : SetDrawerExpanded(expanded)

StatusSpec == Init /\ [][StatusNext]_vars


\* ================================================================ claims
\* The transition table of the print workflow state machine: the states each
\* action is valid from.
TableValidFrom(t) ==
    CASE t = "SELECT_FILE" -> {"empty", "ready"}
      [] t = "REMOVE_FILE" -> {"ready"}
      [] t = "START_SEND" -> {"ready"}
      [] t = "START_PRINTING" -> {"sending"}
      [] t = "PRINT_PROGRESS" -> {"printing"}
      [] t = "COMPLETE" -> {"printing"}
      [] t = "ERROR" -> {"sending", "printing"}
      [] t = "CANCEL" -> {"sending", "printing", "error"}
      [] t = "RESET" -> {"complete", "error"}
      [] OTHER -> {}

\* The result column of the transition table.
TableResult(s, a) ==
    CASE a.type = "SELECT_FILE" -> Ready(a.file)
      [] a.type = "REMOVE_FILE" -> Empty
      [] a.type = "START_SEND" -> Sending(s.file, a.jobId)
      [] a.type = "START_PRINTING" ->
            Printing(s.file, s.jobId, 0, 1, a.totalPages)
      [] a.type = "PRINT_PROGRESS" ->
            Printing(s.file, s.jobId, a.progress, a.currentPage, s.totalPages)
      [] a.type = "COMPLETE" -> Complete(s.file, s.totalPages)
      [] a.type = "ERROR" -> Error(s.file, a.message)
      [] a.type = "CANCEL" -> Ready(s.file)
      [] a.type = "RESET" -> Empty

Dispatched == lastAction # NoAction

\* C1: an (action, state) pair that the transition table does not list, and an
\* action of unknown type, leave the state exactly as it was, in every field.
C1_InvalidPairIsNoop ==
    (Dispatched /\ prevState.type \notin TableValidFrom(lastAction.type))
        => state = prevState

C1_Witness ==
    /\ lastAction.type = "SELECT_FILE"
    /\ prevState.type = "printing"
    /\ lastAction.file # prevState.file
    /\ state = prevState

\* C2: an (action, state) pair that the transition table lists yields exactly
\* the table's result.
C2_ValidPairGivesTableResult ==
    (Dispatched /\ prevState.type \in TableValidFrom(lastAction.type))
        => state = TableResult(prevState, lastAction)

C2_Witness ==
    /\ lastAction.type = "PRINT_PROGRESS"
    /\ prevState.type = "printing"
    /\ prevState.currentPage # lastAction.currentPage
    /\ state.totalPages = prevState.totalPages
    /\ state.currentPage = lastAction.currentPage

\* C3: in every state reachable from empty a file is present exactly when the
\* state is not empty, and a jobId exactly when it is sending or printing.
C3_FileAndJobIdPresence ==
    /\ ("file" \in DOMAIN state) <=> (state.type # "empty")
    /\ ("jobId" \in DOMAIN state) <=> (state.type \in {"sending", "printing"})

C3_Witness ==
    /\ state.type = "complete"
    /\ prevState.type = "printing"
    /\ "jobId" \in DOMAIN prevState

\* C4: the happy path SELECT_FILE(f), START_SEND(j), START_PRINTING(n),
\* PRINT_PROGRESS(p, g), COMPLETE, RESET from empty visits ready(f),
\* sending(f, j), printing(f, j, 0, 1, n), printing(f, j, g, p, n),
\* complete(f, n) and empty, in that order.
C4_HappyPath ==
    /\ hp.step = 0 => state = Empty
    /\ hp.step = 1 => state = Ready(hp.f)
    /\ hp.step = 2 => state = Sending(hp.f, hp.j)
    /\ hp.step = 3 => state = Printing(hp.f, hp.j, 0, 1, hp.n)
    /\ hp.step = 4 => state = Printing(hp.f, hp.j, hp.g, hp.p, hp.n)
    /\ hp.step = 5 => state = Complete(hp.f, hp.n)
    /\ hp.step = 6 => state = Empty

C4_Witness ==
    /\ hp.step = 6
    /\ hp.p = 2
    /\ hp.n = 2
    /\ lastAction.type = "RESET"
    /\ prevState = Complete(hp.f, 2)

\* C5: a PRINT_PROGRESS dispatched outside printing leaves the state
\* unchanged, and the printing state that START_PRINTING enters has
\* currentPage 1 and progress 0 whatever PRINT_PROGRESS came before it.
C5_ProgressOnlyInPrinting ==
    /\ (lastAction.type = "PRINT_PROGRESS" /\ prevState.type # "printing")
          => state = prevState
    /\ (lastAction.type = "START_PRINTING" /\ prevState.type = "sending")
          => /\ state.type = "printing"
             /\ state.currentPage = 1
             /\ state.progress = 0
             /\ state.totalPages = lastAction.totalPages

C5_Witness ==
    /\ earlyProgress
    /\ lastAction.type = "START_PRINTING"
    /\ prevState.type = "sending"
    /\ state.type = "printing"

\* C6: in sending or printing, a poll that reports the job completed moves the
\* flow to complete with the file of the state, and the completion callback is
\* invoked with that file, the total page count and the current color mode.
C6_CompletedPollCompletesFlow ==
    [][(PollOk /\ RouteGetStatus(dev).state = "completed")
        => /\ state'.type = "complete"
           /\ state'.file = state.file
           /\ cbs' = Append(cbs, CompleteCall(state.file, state'.totalPages, colorMode))]_vars

\* C7: when the submission of startPrint fails, the flow enters error with the
\* submitted file and the failure message, and the error callback is invoked
\* with that file and message.
C7_SubmitFailureEntersError ==
    [][\A i \in 1..MaxPending, m \in Messages :
        SubmitFails(i, m)
            => /\ state' = Error(submits[i].file, m)
               /\ cbs' = Append(cbs, ErrorCall(submits[i].file, m))]_vars

\* The text the printer gave for a failed job: its message, else its reasons.
DeviceText(attrs) ==
    IF attrs.message # "" THEN attrs.message
    ELSE IF attrs.reasons.kind = "string" THEN attrs.reasons.v
    ELSE IF attrs.reasons.kind = "array" /\ attrs.reasons.v = <<"media-jam", "aborted-by-system">>
         THEN "media-jam, aborted-by-system"
    ELSE "Print job failed"

\* C8: in sending or printing, a poll that reports the job aborted or canceled,
\* or a poll that fails, moves the flow to error(file, message) and invokes the
\* error callback once with that file and message; for a failed job the
\* message is the printer's message or reasons, else the generic text.
C8_FailedPollEntersError ==
    [][/\ (PollOk /\ RouteGetStatus(dev).state \in {"aborted", "canceled"})
            => /\ state' = Error(state.file, DeviceText(dev))
               /\ cbs' = Append(cbs, ErrorCall(state.file, DeviceText(dev)))
               /\ ~PollEnabled(state')
       /\ \A m \in Messages :
            PollFail(m)
            => /\ state' = Error(state.file, m)
               /\ cbs' = Append(cbs, ErrorCall(state.file, m))
               /\ ~PollEnabled(state')]_vars

C8_Witness ==
    /\ state.type = "error"
    /\ state.errorMessage = "media-jam, aborted-by-system"
    /\ cbs = <<ErrorCall(state.file, "media-jam, aborted-by-system")>>

TerminalStates == {"completed", "canceled", "aborted"}

\* C9: the job-status poll is enabled exactly while the state is sending or
\* printing, and once a poll has reported the job completed, canceled or
\* aborted the poll of that job is no longer enabled.
C9_PollingStopsOnceTerminal ==
    /\ PollEnabled(state) <=> state.type \in {"sending", "printing"}
    /\ (qdata # NoData /\ qdata.state \in TerminalStates) => ~PollEnabled(state)

\* C10: a cancel() made in sending or printing never puts the flow into error
\* through its own device request, and when that request settles, resolved or
\* rejected, the flow is ready with the file it held when cancel() was called.
C10_CancelReturnsToReady ==
    /\ [](~(state.type = "error" /\ state.errorMessage = "job-canceled-by-user"))
    /\ [][\A i \in 1..MaxCancels :
            CancelSettles(i) => state' = Ready(cancels[i].file)]_vars


\* C11: cancel() of the print flow returns the flow to ready at once: the step
\* that sends the device's cancel request already leaves the flow in ready
\* with its file, before that request is answered.
C11_CancelDoesNotWaitForDevice ==
    [][CancelStart => state' = Ready(state.file)]_vars

\* ------------------------------------------------ claims on scan and copy
WaitPcs == {"poll", "sleep", "fetch"}

\* C12: when a step of performScan after the job was created fails (the wait
\* sees stopped, times out or its status fetch fails, or the document fetch
\* fails), exactly one DELETE is sent, to the URL createScanJob returned, and
\* the error is held back until that request is answered; only then is it
\* rethrown to the caller.
C12_CleanupOnceBeforeRethrow ==
    [][\A r \in 1..MaxRuns :
        /\ (/\ runs[r].pc \in WaitPcs
            /\ runs'[r].pc \notin WaitPcs
            /\ ~runs'[r].scanned)
              => /\ runs'[r].pc = "cleanup"
                 /\ runs'[r].error # NoError
                 /\ runs'[r].deleted = <<runs[r].jobUrl>>
                 /\ runs[r].jobUrl # ""
                 /\ copy'.status = "error" => copy' = copy
        /\ (runs[r].pc = "cleanup" /\ runs'[r].pc # "cleanup")
              => /\ runs'[r].pc = "done"
                 /\ runs'[r].deleted = <<runs[r].jobUrl>>]_vars

C12_Witness ==
    \E r \in 1..MaxRuns :
        /\ runs[r].pc = "done"
        /\ runs[r].error = ScanTimedOut
        /\ runs[r].deleted = <<JobUrl(1)>>
        /\ copy.status = "error"

\* C13: when the cleanup DELETE of performScan fails, the error performScan
\* rethrows, and the message the copy shows, is still the error of the wait
\* or fetch step that failed.
C13_CleanupFailureNeverMasks ==
    [][\A r \in 1..MaxRuns :
        (/\ runs[r].pc = "cleanup"
         /\ runs'[r].pc = "done"
         /\ runs'[r].cleanup = "failed")
           => /\ runs'[r].error = runs[r].error
              /\ ~cancelledRef => (copy'.status = "error" /\ copy'.message = runs[r].error)]_vars

C13_Witness ==
    \E r \in 1..MaxRuns :
        /\ runs[r].pc = "done"
        /\ runs[r].cleanup = "failed"
        /\ runs[r].error = ScannerStopped
        /\ copy.status = "error"
        /\ copy.message = ScannerStopped

\* C14: every performScan run whose job was created has sent a DELETE for the
\* job's URL by the time the run has ended, by retrieval or by failure.
C14_EveryScanJobDeleted ==
    \A r \in 1..MaxRuns :
        (runs[r].jobUrl # "" /\ runs[r].pc \in {"submit", "done"})
            => runs[r].deleted = <<runs[r].jobUrl>>

\* the scanner state a status document with this State text shows
ObservedState(text) ==
    IF text = "Processing" THEN "processing"
    ELSE IF text = "Stopped" THEN "stopped"
    ELSE "idle"

\* C15: every status poll of waitForScanComplete passes the state it observed
\* to the progress callback; on idle the wait resolves (the document fetch
\* follows), on stopped it rejects with the scanner-stopped error, otherwise
\* it sleeps; and it rejects with the timeout error exactly when the time
\* waited has reached maxWaitMs at the loop condition.
C15_WaitForScanComplete ==
    [][\A r \in 1..MaxRuns :
        /\ \A response \in StatusResponses, dt \in 0..1 :
            (PollAnswered(r, response, dt) /\ response.kind = "xml")
              => LET st == ObservedState(response.text)
                 IN /\ runs'[r].progress = Append(runs[r].progress, st)
                    /\ ~cancelledRef => copy' = CopyScanning(st)
                    /\ st = "idle" => (runs'[r].pc = "fetch" /\ runs'[r].error = NoError)
                    /\ st = "stopped" => (runs'[r].pc = "cleanup"
                                          /\ runs'[r].error = ScannerStopped)
                    /\ st = "processing" => runs'[r].pc = "sleep"
        /\ SleepDone(r)
              => IF runs'[r].elapsed >= MaxWaitTicks
                 THEN runs'[r].pc = "cleanup" /\ runs'[r].error = ScanTimedOut
                 ELSE runs'[r].pc = "poll" /\ runs'[r].error = NoError]_vars

C15_Witness ==
    \E r \in 1..MaxRuns :
        /\ runs[r].pc = "cleanup"
        /\ runs[r].error = ScannerStopped
        /\ Len(runs[r].progress) >= 3
        /\ runs[r].progress[Len(runs[r].progress)] = "stopped"

NoLocation == "No Location header in scan job response"
NoJobAttributes == "Failed to submit print job: No job attributes in response"

\* C16: a 2xx answer to the scan job request without a Location header makes
\* createScanJob reject, no job URL being taken; a successful Print-Job answer
\* without job attributes makes the print submission reject, no job being
\* taken as submitted.
C16_MalformedSuccessIsError ==
    [][\A r \in 1..MaxRuns :
        /\ \A response \in CreateResponses(ScanJobsCreated + 1) :
            (/\ CreateAnswered(r, response)
             /\ response.kind = "http"
             /\ response.status = 201
             /\ response.location = "")
              => /\ runs'[r].pc = "done"
                 /\ runs'[r].error = NoLocation
                 /\ runs'[r].jobUrl = ""
                 /\ ~cancelledRef => (copy'.status = "error" /\ copy'.message = NoLocation)
        /\ \A i \in IppResponses :
            (/\ SubmitAnswered(r, RoutePost(i))
             /\ ~i.error
             /\ i.statusCode \in {"", "successful-ok"}
             /\ ~i.jobAttrs)
              => /\ runs'[r].error = NoJobAttributes
                 /\ runs'[r].job = 0
                 /\ ~cancelledRef => (copy'.status = "error"
                                      /\ copy'.message = NoJobAttributes)]_vars

C16_Witness ==
    /\ runs[1].pc = "done"
    /\ runs[1].error = NoLocation
    /\ runs[2].pc = "done"
    /\ runs[2].error = NoJobAttributes
    /\ copy.status = "error"

\* C17: within one startCopy run the print phase begins only when performScan
\* has returned the document: the run submits its print job, and the copy
\* state enters printing, in the step in which the document fetch resolved,
\* and once the run is in its print phase it takes no scan step any more.
C17_PrintOnlyAfterScanResolved ==
    [][/\ \A r \in 1..MaxRuns :
            /\ (runs'[r].pc = "submit" /\ runs[r].pc # "submit")
                  => /\ runs[r].pc = "fetch"
                     /\ runs'[r].scanned
                     /\ runs'[r].error = NoError
                     /\ copy' = CopyPrinting(1, runs[r].copies)
            /\ runs[r].pc = "submit" => runs'[r].pc \in {"submit", "done"}
            /\ runs'[r].job # 0 => runs'[r].scanned
       /\ (copy'.status = "printing" /\ copy.status # "printing")
            => \E r \in 1..MaxRuns :
                  /\ runs[r].pc = "fetch"
                  /\ runs'[r].pc = "submit"
                  /\ runs'[r].scanned]_vars

C17_Witness ==
    \E r \in 1..MaxRuns :
        /\ runs[r].pc = "submit"
        /\ runs[r].scanned
        /\ Len(runs[r].progress) >= 2
        /\ copy = CopyPrinting(1, MaxCopies)

\* C18: a run that fails while its scan is under way leaves the copy in
\* error with phase scan, and a run that fails in its print submission leaves
\* it in error with phase print, on every attempt.
C18_ErrorPhaseAttribution ==
    [][\A r \in 1..MaxRuns :
        (/\ runs[r].pc # "done"
         /\ runs'[r].pc = "done"
         /\ runs'[r].error # NoError
         /\ ~cancelledRef)
           => copy' = CopyError(runs'[r].error,
                                IF runs[r].pc = "submit" THEN "print" ELSE "scan")]_vars

\* C19: once cancel() was called while a run was in flight, no later step of
\* that run changes the copy state, and a run cancelled in its scan phase
\* submits no print job.
C19_CancelledRunStaysSilent ==
    [][\A r \in 1..MaxRuns :
        (runs[r].cancelledAt # "none" /\ runs'[r].pc # runs[r].pc)
           => /\ copy' = copy
              /\ runs[r].cancelledAt = "scan" => runs'[r].pc # "submit"]_vars

\* C20: the copy state enters complete only when the print job the run
\* submitted has been seen completed on the printer.
C20_CompleteOnlyAfterJobCompleted ==
    [][(copy'.status = "complete" /\ copy.status # "complete")
          => \E r \in 1..MaxRuns : runs[r].pc = "submit" /\ runs'[r].job = 9]_vars

\* ------------------------------------------------------------------
\* C21: the displayed status follows a strict priority: an Error alert gives
\* error; otherwise an unreachable printer gives offline; otherwise a
\* processing job gives copying, scanning or printing by its category;
\* otherwise a processing scanner gives scanning; otherwise a Warning alert
\* gives warning; otherwise the status is ready.
C21_StatusPriority ==
    LET shown == computeStatus(alerts, currentJob, scannerStatus,
                               IsOffline(failedQueries))
        error == \E i \in 1..Len(alerts) : alerts[i].severity = "Error"
        warning == \E i \in 1..Len(alerts) : alerts[i].severity = "Warning"
        offline == failedQueries = {"status", "ink", "paper", "scanner"}
        working(category) ==
            /\ currentJob # Null
            /\ currentJob.state = "Processing"
            /\ currentJob.category = category
        byJob == working("Copy") \/ working("Scan") \/ working("Print")
        scanning == scannerStatus # Null /\ scannerStatus.state = "Processing"
    IN /\ error => shown = "error"
       /\ (~error /\ offline) => shown = "offline"
       /\ (~error /\ ~offline /\ working("Copy")) => shown = "copying"
       /\ (~error /\ ~offline /\ working("Scan")) => shown = "scanning"
       /\ (~error /\ ~offline /\ working("Print")) => shown = "printing"
       /\ (~error /\ ~offline /\ ~byJob /\ scanning) => shown = "scanning"
       /\ (~error /\ ~offline /\ ~byJob /\ ~scanning /\ warning) => shown = "warning"
       /\ (~error /\ ~offline /\ ~byJob /\ ~scanning /\ ~warning) => shown = "ready"

\* an Error alert, a processing print job and an unreachable printer at once
C21_Witness ==
    /\ \E i \in 1..Len(alerts) : alerts[i].severity = "Error"
    /\ currentJob # Null /\ currentJob.state = "Processing"
    /\ currentJob.category = "Print"
    /\ IsOffline(failedQueries)
    /\ computeStatus(alerts, currentJob, scannerStatus, IsOffline(failedQueries)) = "error"

\* ------------------------------------------------------------------
\* C22: the drawer is opened automatically only by a status update whose
\* alerts hold an Error while the alerts before it held none, and every such
\* update opens it; an update during a persisting error leaves a collapsed
\* drawer collapsed.
C22_AutoExpandOnRisingEdge ==
    [][LET before == \E i \in 1..Len(alerts) : alerts[i].severity = "Error"
           after == \E i \in 1..Len(alerts') : alerts'[i].severity = "Error"
       IN /\ (\E sev \in SeqsUpTo(SeverityTexts, MaxAlerts) : StatusPoll(sev))
                => isDrawerExpanded' = (isDrawerExpanded \/ (after /\ ~before))
          /\ isDrawerExpanded' # isDrawerExpanded
                => \/ \E expanded \in BOOLEAN : SetDrawerExpanded(expanded)
                   \/ isDrawerExpanded' /\ after /\ ~before]_vars

\* the error persists, seen by the effect, and the drawer is collapsed
C22_Witness ==
    /\ \E i \in 1..Len(alerts) : alerts[i].severity = "Error"
    /\ prevHasErrorRef
    /\ ~isDrawerExpanded
    /\ Len(alerts) = MaxAlerts

\* ------------------------------------------------------------------
\* C23: the status route maps IPP job-state 3 and 4 to pending, 5 and 6 to
\* processing, 7 to canceled, 8 to aborted, 9 to completed, and every other
\* integer and a missing job-state to pending.
C23_JobStateMapping ==
    (reply.doc = "Get-Job-Attributes" /\ record # NotFetched) =>
        record.v.state =
            IF "jobState" \notin DOMAIN reply.body THEN "pending"
            ELSE CASE reply.body.jobState = 3 -> "pending"
                   [] reply.body.jobState = 4 -> "pending"
                   [] reply.body.jobState = 5 -> "processing"
                   [] reply.body.jobState = 6 -> "processing"
                   [] reply.body.jobState = 7 -> "canceled"
                   [] reply.body.jobState = 8 -> "aborted"
                   [] reply.body.jobState = 9 -> "completed"
                   [] OTHER -> "pending"

\* a held job (4) was mapped
C23_Witness ==
    /\ reply.doc = "Get-Job-Attributes" /\ record # NotFetched
    /\ "jobState" \in DOMAIN reply.body
    /\ reply.body.jobState = 4
    /\ record.v.state = "pending"

\* an answer without job-state was mapped
C23_WitnessMissing ==
    /\ reply.doc = "Get-Job-Attributes" /\ record # NotFetched
    /\ "jobState" \notin DOMAIN reply.body
    /\ record.v.state = "pending"

\* ------------------------------------------------------------------
\* C24: whatever consumables the device lists, in whatever order, the ink
\* levels come out in the order K, C, M, Y and are exactly the listed
\* consumables of type ink with a label code K, C, M or Y.
StationRank(color) ==
    CASE color = "K" -> 1 [] color = "C" -> 2 [] color = "M" -> 3 [] color = "Y" -> 4

C24_InkLevelsSortedAndFiltered ==
    (reply.doc = "ConsumableConfigDyn" /\ record # NotFetched) =>
        LET out == record.v
            listed == reply.body
        IN /\ \A i \in 1..Len(out) : out[i].color \in {"K", "C", "M", "Y"}
           /\ \A i, j \in 1..Len(out) :
                 i < j => StationRank(out[i].color) <= StationRank(out[j].color)
           /\ \A c \in {"K", "C", "M", "Y"} :
                 Cardinality({i \in 1..Len(out) : out[i].color = c})
                 = Cardinality({k \in 1..Len(listed) :
                       listed[k].typeEnum = "ink" /\ listed[k].labelCode = c})

\* a list out of station order with a printhead in it was parsed
C24_Witness ==
    /\ reply.doc = "ConsumableConfigDyn" /\ record # NotFetched
    /\ \E i, j \in 1..Len(reply.body) :
          /\ i < j
          /\ reply.body[i] = [typeEnum |-> "ink", labelCode |-> "Y"]
          /\ reply.body[j] = [typeEnum |-> "ink", labelCode |-> "K"]
    /\ \E k \in 1..Len(reply.body) : reply.body[k].typeEnum = "printhead"
    /\ Len(record.v) = 2

\* ------------------------------------------------------------------
\* C25: an unrecognized enum text never fails the parse and falls back to
\* the default: MediaState to ready, job state to Pending, alert severity to
\* Info; every parsed record holds only values of its declared enum.
C25_ParsedValuesAreDeclared ==
    record # NotFetched =>
        /\ reply.doc = "MediaHandlingDyn" =>
              /\ record.v.state \in {"ready", "missing", "jam"}
              /\ reply.body \notin {"ready", "missing", "jam"} => record.v.state = "ready"
        /\ reply.doc = "JobList" =>
              \A i \in 1..Len(record.v) :
                 /\ record.v[i].state \in
                       {"Pending", "Processing", "Completed", "Canceled", "Aborted"}
                 /\ reply.body[i].stateText \notin
                       {"Pending", "Processing", "Completed", "Canceled", "Aborted"}
                       => record.v[i].state = "Pending"
        /\ reply.doc = "ProductStatusDyn" =>
              \A i \in 1..Len(record.v.alerts) :
                 /\ record.v.alerts[i].severity \in {"Info", "Warning", "Error"}
                 /\ reply.body[i] \notin {"Info", "Warning", "Error"}
                       => record.v.alerts[i].severity = "Info"

\* ------------------------------------------------------------------
\* C26: a request that changes the device is never repeated on its own: a
\* print submission is issued only by startPrint, one per call, and a failed
\* one is gone; a copy run sends its scan-create request once, when startCopy
\* is called, and its print submission once, after the scan was retrieved.
C26_NoAutomaticRetry ==
    [][/\ Len(submits') > Len(submits)
            => (StartPrint /\ Len(submits') = Len(submits) + 1)
       /\ \A i \in 1..MaxPending, m \in Messages :
            SubmitFails(i, m) => Len(submits') = Len(submits) - 1
       /\ \A r \in 1..MaxRuns :
            /\ (runs'[r].pc = "create" /\ runs[r].pc # "create")
                  => (runs[r].pc = "none" /\ \E n \in 1..MaxCopies : StartCopy(n))
            /\ (runs'[r].pc = "submit" /\ runs[r].pc # "submit")
                  => runs[r].pc = "fetch"
            /\ runs[r].pc = "done" => runs'[r].pc = "done"]_vars

\* a print submission failed, its failure was reported and no request is pending
C26_Witness ==
    /\ submits = <<>>
    /\ nextJobId = 1
    /\ cbs # <<>>
    /\ cbs[Len(cbs)].kind = "error"

\* the scan-create request of a copy run failed and the run is over
C26_WitnessScan ==
    /\ \E r \in 1..MaxRuns :
          runs[r].pc = "done" /\ runs[r].jobUrl = "" /\ runs[r].error # NoError
    /\ \A r \in 1..MaxRuns : ~InFlight(runs[r])
    /\ copy.status = "error"

\* ------------------------------------------------------------------
\* C27: a poll that reports processing with a page count moves a sending flow
\* to printing with the total pages of the poll and changes only currentPage
\* and progress of a printing flow; a poll that reports processing without a
\* page count leaves a sending flow in sending.
C27_ProcessingPollDrivesPrinting ==
    [][(PollOk /\ dev.jobState \in {5, 6})
        => /\ (state.type = "sending" /\ dev.total # 0)
                => /\ state'.type = "printing"
                   /\ state'.totalPages = dev.total
                   /\ state'.file = state.file
                   /\ state'.jobId = state.jobId
           /\ (state.type = "printing" /\ dev.total # 0)
                => /\ state'.type = "printing"
                   /\ state'.totalPages = state.totalPages
                   /\ state'.file = state.file
                   /\ state'.jobId = state.jobId
           /\ (state.type = "sending" /\ dev.total = 0)
                => state' = state]_vars

\* a sending flow saw a processing poll without a page count and stayed
C27_Witness ==
    /\ state.type = "sending"
    /\ qdata # NoData
    /\ qdata.state = "processing"
    /\ qdata.totalPages = 0
    /\ qdata.currentPage # 0

\* a flow was moved to printing by a processing poll with its page count
C27_WitnessPrinting ==
    /\ state.type = "printing"
    /\ qdata # NoData
    /\ qdata.state = "processing"
    /\ state.totalPages = qdata.totalPages
    /\ state.currentPage = MaxPages

C29_OneSubmissionOutstanding ==
    /\ [](Len(submits) <= 1)
    /\ [][\A i \in 1..MaxPending :
            SubmitSucceeds(i) => (state'.type = "sending" /\ state'.jobId = nextJobId)]_vars

\* ------------------------------------------------------------------
\* C30: a copy run cancelled during its scan never submits a print job, not
\* even when startCopy is called again while its request is in flight; every
\* step a cancelled run takes leaves the copy state alone; so the print jobs
\* submitted are at most as many as the runs that were not cancelled.
C30_CancelledRunNeverResumes ==
    /\ [](\A r \in 1..MaxRuns :
            runs[r].cancelledAt = "scan" => (runs[r].pc # "submit" /\ runs[r].job = 0))
    /\ [](Cardinality({r \in 1..MaxRuns : runs[r].pc = "submit" \/ runs[r].job # 0})
            <= Cardinality({r \in 1..MaxRuns :
                   runs[r].pc # "none" /\ runs[r].cancelledAt # "scan"}))
    /\ [][\A r \in 1..MaxRuns :
            (runs[r].cancelledAt # "none" /\ runs'[r] # runs[r]
                /\ runs'[r].cancelledAt = runs[r].cancelledAt)
              => copy'.status = copy.status]_vars


\* C31: after cancel() in sending or printing, whatever poll results
\* (processing, completed, canceled, aborted, poll failure) arrive while the
\* cancel request is pending, the flow ends in ready with the same file: when
\* the request settles and only polls have acted on the flow of that job, the
\* next state is Ready(file).
C31_CancelEndsInReadyUnderPolls ==
    [][\A i \in 1..MaxCancels :
          (/\ CancelSettles(i)
           /\ state.type \in {"sending", "printing", "complete", "error"}
           /\ state.file = cancels[i].file
           /\ nextJobId = cancels[i].jobId + 1
           /\ submits = <<>>)
          => state' = Ready(cancels[i].file)]_vars

\* C32: a cancel the user started never has onJobError invoked for that job:
\* the reason the printer gives a job it cancelled on the user's request
\* ("job-canceled-by-user") is never the message of an onJobError call, also
\* when a poll sees the job canceled before the flow is back in ready.
C32_CancelNeverReportsJobError ==
    \A k \in 1..Len(cbs) :
        ~(cbs[k].kind = "error" /\ cbs[k].message = "job-canceled-by-user")

\* C33: the completion callback is invoked at most once per submitted job,
\* and only on a step in which the flow state becomes complete; it is never
\* invoked on a step after which the state is still sending or printing.
C33_CompletionCallbackOnlyOnComplete ==
    /\ [](Cardinality({k \in 1..Len(cbs) : cbs[k].kind = "complete"}) <= 1)
    /\ [][(/\ Len(cbs') > Len(cbs)
           /\ cbs'[Len(cbs')].kind = "complete")
          => (state'.type = "complete" /\ state.type # "complete")]_vars

\* actions of the job life cycle, which carry no file
JobActionTypes ==
    {"START_SEND", "START_PRINTING", "PRINT_PROGRESS", "COMPLETE", "ERROR",
     "CANCEL"}

\* C34: the file of a non-empty state is the file of the most recent accepted
\* SELECT_FILE: a SELECT_FILE dispatched in empty or ready sets it, the
\* actions START_SEND, START_PRINTING, PRINT_PROGRESS, COMPLETE, ERROR and
\* CANCEL never change it (and never give an empty state a file), and a
\* SELECT_FILE dispatched in sending, printing, complete or error does not
\* replace it.
C34_FileFollowsAcceptedSelect ==
    Dispatched =>
        /\ (lastAction.type = "SELECT_FILE" /\ prevState.type \in {"empty", "ready"})
              => state = Ready(lastAction.file)
        /\ lastAction.type \in JobActionTypes
              => IF prevState.type = "empty" THEN state = Empty
                 ELSE state.type # "empty" /\ state.file = prevState.file
        /\ (/\ lastAction.type = "SELECT_FILE"
            /\ prevState.type \in {"sending", "printing", "complete", "error"})
              => state.type = prevState.type /\ state.file = prevState.file

C34_Witness ==
    /\ lastAction.type = "SELECT_FILE"
    /\ prevState.type = "complete"
    /\ lastAction.file # prevState.file
    /\ state.file = prevState.file

C34_WitnessCancel ==
    /\ lastAction.type = "CANCEL"
    /\ prevState.type = "error"
    /\ prevState.file = "b.pdf"
    /\ state = Ready("b.pdf")

\* C35: the jobId of a flow is the one of the accepted START_SEND until the
\* flow leaves sending/printing: START_SEND in ready gives sending with the
\* action's jobId and the ready file, every step from sending or printing to
\* sending or printing (START_PRINTING, PRINT_PROGRESS, a refused START_SEND)
\* keeps the jobId, and CANCEL in error gives a ready state with the same
\* file and no jobId, from which a new START_SEND(k) gives sending with k.
C35_JobIdFixedWhileJobHeld ==
    Dispatched =>
        /\ (lastAction.type = "START_SEND" /\ prevState.type = "ready")
              => state = Sending(prevState.file, lastAction.jobId)
        /\ (/\ prevState.type \in {"sending", "printing"}
            /\ state.type \in {"sending", "printing"})
              => state.jobId = prevState.jobId /\ state.file = prevState.file
        /\ (lastAction.type = "START_SEND" /\ prevState.type \in {"sending", "printing"})
              => state = prevState
        /\ (lastAction.type = "CANCEL" /\ prevState.type = "error")
              => state = Ready(prevState.file) /\ "jobId" \notin DOMAIN state

C35_Witness ==
    /\ lastAction.type = "START_SEND"
    /\ prevState.type = "sending"
    /\ lastAction.jobId # prevState.jobId
    /\ state.jobId = prevState.jobId

C35_WitnessPrinting ==
    /\ lastAction.type = "START_PRINTING"
    /\ prevState.type = "sending"
    /\ prevState.jobId = 2
    /\ state.type = "printing"
    /\ state.jobId = 2

\* C36: complete is entered only from printing and error only from sending or
\* printing, printing only from sending and sending only from ready, each
\* time with the file unchanged: a complete state is preceded, for its file,
\* by ready, sending and printing in that order, and the flow did not pass
\* through empty in between.
C36_CompleteOnlyAfterPrinting ==
    (Dispatched /\ state.type # prevState.type) =>
        /\ state.type = "complete"
              => prevState.type = "printing" /\ state.file = prevState.file
        /\ state.type = "error"
              => prevState.type \in {"sending", "printing"}
                 /\ state.file = prevState.file
        /\ state.type = "printing"
              => prevState.type = "sending" /\ state.file = prevState.file
        /\ state.type = "sending"
              => prevState.type = "ready" /\ state.file = prevState.file

C36_Witness ==
    /\ lastAction.type = "COMPLETE"
    /\ prevState.type = "printing"
    /\ state = Complete(prevState.file, prevState.totalPages)

C36_WitnessRefused ==
    /\ lastAction.type = "COMPLETE"
    /\ prevState.type = "sending"
    /\ state = prevState

\* user actions of the print page
UserActions ==
    {a \in PrintActions :
        a.type \in {"SELECT_FILE", "REMOVE_FILE", "CANCEL", "RESET"}}

\* the states one user action leads to
AfterUserAction(s) == {printReducer(s, a) : a \in UserActions}

\* C37: no state is a dead end: from every reachable state some sequence of
\* at most two user actions (SELECT_FILE, REMOVE_FILE, CANCEL, RESET), with no
\* action that stands for the device, leads to empty.
C37_UserCanAlwaysReturnToEmpty ==
    \/ state = Empty
    \/ Empty \in AfterUserAction(state)
    \/ \E s \in AfterUserAction(state) : Empty \in AfterUserAction(s)

C37_Witness ==
    /\ state.type = "printing"
    /\ printReducer(state, [type |-> "CANCEL"]) = Ready(state.file)
    /\ printReducer(Ready(state.file), [type |-> "REMOVE_FILE"]) = Empty

C37_WitnessComplete ==
    /\ state.type = "complete"
    /\ printReducer(state, [type |-> "RESET"]) = Empty

\* C38: every printing state of the poll-driven flow has a progress between 0
\* and 100 and a current page between 1 and its total, whatever page counts
\* the printer reports (no total, or more pages completed than the total).
C38_ProgressAndPageInRange ==
    state.type = "printing" =>
        /\ 0 <= state.progress /\ state.progress <= 100
        /\ 1 <= state.currentPage /\ state.currentPage <= state.totalPages

\* the errors createScanJob rejects with
CreateErrors ==
    {createScanJob(response).m :
        response \in {x \in CreateResponses(1) : ~createScanJob(x).ok}}

\* C39: when createScanJob fails (non-success status, missing Location, or a
\* failed request) performScan goes no further: the run is over with exactly
\* the creation error, it reported no progress, sent no scanner-status poll,
\* no document fetch and no cancel request, and none follows later.
C39_FailedCreateStopsScan ==
    /\ [](\A r \in 1..MaxRuns :
            (runs[r].pc \notin {"none", "create"} /\ runs[r].jobUrl = "")
              => /\ runs[r].pc = "done"
                 /\ runs[r].error \in CreateErrors
                 /\ runs[r].progress = <<>>
                 /\ runs[r].deleted = <<>>
                 /\ runs[r].cleanup = "none"
                 /\ runs[r].elapsed = 0
                 /\ ~runs[r].scanned
                 /\ runs[r].job = 0)
    /\ [][\A r \in 1..MaxRuns :
            \A response \in CreateResponses(ScanJobsCreated + 1) :
               (CreateAnswered(r, response) /\ ~createScanJob(response).ok)
                 => /\ runs'[r].error = createScanJob(response).m
                    /\ ~cancelledRef =>
                          /\ copy'.status = "error"
                          /\ copy'.message = createScanJob(response).m]_vars

C39_Witness ==
    /\ runs[1].pc = "done"
    /\ runs[1].jobUrl = ""
    /\ runs[1].error = "Failed to create scan job: 503"
    /\ runs[1].progress = <<>>
    /\ runs[1].deleted = <<>>
    /\ copy.status = "error"

\* C40: the copy screen records an attempt as completed only when that run of
\* startCopy reached the complete state: its print job was accepted, it met
\* no error and it was not cancelled. A failed or cancelled attempt is never
\* recorded as completed.
C40_CompletedOnlyWhenRunCompleted ==
    \A r \in 1..MaxRuns :
        runs[r].recorded = "completed"
          => /\ runs[r].job # 0
             /\ runs[r].error = NoError
             /\ runs[r].cancelledAt = "none"

====
